---- MODULE Spec2Model ----
(***************************************************************************)
(* AAudio state-machine validation sample: the host entry points and the  *)
(* detached worker thread (audio_main.cpp), the table driven validator    *)
(* ValidateStreamStateMachine with CheckState, the scripted session       *)
(* ValidateStreamStateMachine2 (validate_outstream.cpp) and the buffer    *)
(* size tuner TunePlayerForLowLatency (audio_main.cpp).                    *)
(*                                                                         *)
(* The audio library is the environment.  A stream is a "double": every   *)
(* blocking library call may leave the stream in any state of             *)
(* DoubleStates and may return any status of Results.                      *)
(***************************************************************************)
EXTENDS Integers, Sequences, FiniteSets, TLC

\* ------------------------------------------------------------ bounds
\* host entry-point calls issued by the single caller
MaxCalls == 3
\* successive calls of ValidateStreamStateMachine by the sequential driver
MaxRuns == 2
\* the tuner's stream double: largest buffer capacity, largest burst,
\* largest underrun count
MaxCap == 3
MaxBurst == 2
MaxXRun == 2

\* ------------------------------------------- library enumerations
\* aaudio_stream_state_t, as the code uses it: (target state - 1) is the
\* transient state leading to the target (validate_outstream.cpp:102,265)
AAUDIO_STREAM_STATE_UNINITIALIZED == 0
AAUDIO_STREAM_STATE_UNKNOWN == 1
AAUDIO_STREAM_STATE_OPEN == 2
AAUDIO_STREAM_STATE_STARTING == 3
AAUDIO_STREAM_STATE_STARTED == 4
AAUDIO_STREAM_STATE_PAUSING == 5
AAUDIO_STREAM_STATE_PAUSED == 6
AAUDIO_STREAM_STATE_FLUSHING == 7
AAUDIO_STREAM_STATE_FLUSHED == 8
AAUDIO_STREAM_STATE_STOPPING == 9
AAUDIO_STREAM_STATE_STOPPED == 10
AAUDIO_STREAM_STATE_CLOSED == 12

\* aaudio_result_t
AAUDIO_OK == 0
AAUDIO_ERROR_TIMEOUT == -885
AAUDIO_ERROR_INVALID_STATE == -895

\* the null stream handle
nullptr == 0

\* the states a stream double may be in, and the statuses its calls return
DoubleStates ==
  { AAUDIO_STREAM_STATE_OPEN, AAUDIO_STREAM_STATE_STARTED,
    AAUDIO_STREAM_STATE_PAUSED, AAUDIO_STREAM_STATE_FLUSHED,
    AAUDIO_STREAM_STATE_STOPPED }

Results == { AAUDIO_OK, AAUDIO_ERROR_TIMEOUT, AAUDIO_ERROR_INVALID_STATE }

IS_STABLE_STATE(state) ==
  \/ state = AAUDIO_STREAM_STATE_UNINITIALIZED
  \/ state = AAUDIO_STREAM_STATE_UNKNOWN
  \/ state = AAUDIO_STREAM_STATE_OPEN
  \/ state = AAUDIO_STREAM_STATE_STARTED
  \/ state = AAUDIO_STREAM_STATE_PAUSED
  \/ state = AAUDIO_STREAM_STATE_FLUSHED
  \/ state = AAUDIO_STREAM_STATE_STOPPED
  \/ state = AAUDIO_STREAM_STATE_CLOSED

\* ------------------------------------------------ the static step table
\* stateMachine[] without its mutable result column (kept in smResult)
stateMachine ==
  << [action |-> "nullptr",      state |-> AAUDIO_STREAM_STATE_OPEN],
     [action |-> "requestStart", state |-> AAUDIO_STREAM_STATE_STARTED],
     [action |-> "requestPause", state |-> AAUDIO_STREAM_STATE_PAUSED],
     [action |-> "requestFlush", state |-> AAUDIO_STREAM_STATE_FLUSHED],
     [action |-> "requestStart", state |-> AAUDIO_STREAM_STATE_STARTED],
     [action |-> "requestStop",  state |-> AAUDIO_STREAM_STATE_STOPPED],
     [action |-> "close",        state |-> AAUDIO_STREAM_STATE_CLOSED] >>

stateMachineSize == Len(stateMachine)

\* stateMachine[idx] for the code's zero based idx
Step(idx) == stateMachine[idx + 1]

\* ------------------------------------------------- faulty variants
\* Variants of the decisions below that the source does not take; each is
\* substituted for the decision it names to see a property break.

\* start() without its guard
StartRejectedNever == FALSE

\* a final comparison that accepts any state
CheckFinalAlways(state, curState) == TRUE

\* a verdict that is the OR of the step results
PassedAny(res) == \E i \in DOMAIN res : res[i]

\* a closed step treated like the other steps
IsClosedStepNever(idx) == FALSE

\* a loop that stops one step early
PcLoopShort(idx) ==
  IF idx >= stateMachineSize - 1 THEN "V_report"
  ELSE IF stateMachine[idx + 1].action # "nullptr" THEN "V_action"
  ELSE IF idx # 0 THEN "V_wait" ELSE "V_check"

\* a result that is never reset once it was true
RecordSticky(old, new) == old \/ new

\* a tuner without the state precondition
NotStartedNever(state) == FALSE

\* a wait that starts from the target of the step before
WaitFromPreviousTarget(idx) == stateMachine[idx].state

\* a wait loop that also retries after an error status
WaitAgainOnError(status, nextState) ==
  nextState = AAUDIO_STREAM_STATE_UNINITIALIZED

\* a worker that runs the table for the output direction
TableDirectionOutput == "AAUDIO_DIRECTION_OUTPUT"

\* a tuner that stops before it probes the capacity
LoopConditionStrict(bufSize, bufCap) == bufSize < bufCap
LoopConditionAlways(bufSize, bufCap) == bufSize = bufSize

\* a tuner that needs the underrun count to fall
NoNewXRunStrict(curXRun, prevXRun) == curXRun < prevXRun

VARIABLES
  NDEBUG,        \* build configuration: "defined" when assert() is compiled
                 \* out, "undefined" when it is not, "either" until an assert
                 \* fails (the two builds agree till then)
  proc,          \* "running", or why the process ended (failed assert, crash)
  engine,        \* static AAudioEngine engine
  inputStream,   \* static AAudioStream *inputStream: nullptr or a handle
  strm,          \* the stream object inputStream points to
  smResult,      \* stateMachine[idx].result, idx in 0..6
  th,            \* the threads: worker threads and the sequential driver
  host,          \* the caller of the entry points: calls made, last call
                 \* and the jboolean it returned (FALSE before any call and
                 \* for deleteEngine, which returns nothing)
  tune,          \* TunePlayerForLowLatency: its stream double and locals
  lib            \* which stream doubles the library hands out

vars ==
  << NDEBUG, proc, engine, inputStream, strm, smResult, th, host, tune, lib >>


\* ------------------------------------------------------------ threads
Threads == 1..MaxCalls

\* the value of a local that holds nothing yet or no longer (aaudio_result_t
\* status, line 77, is declared without a value); it is no AAudio state and
\* no AAudio result
Undefined == -1

\* a thread that was never launched.  acts (the actions the validator in
\* progress has invoked, in order) and rec (the steps whose result it has
\* recorded) are bookkeeping of the model, as is sessions (the validation
\* functions that have returned to the thread, with the direction they were
\* called for), and as are runs and prevStatus, which belong to the
\* sequential driver
IdleThread ==
  [ pc |-> "none", caller |-> "none", idx |-> 0,
    status |-> Undefined, nextState |-> AAUDIO_STREAM_STATE_UNINITIALIZED,
    curState |-> Undefined, waitFrom |-> Undefined,
    stateValidationStatus |-> FALSE, runs |-> 0, prevStatus |-> FALSE,
    acts |-> << >>, rec |-> {}, sessions |-> << >> ]

\* the stream object behind inputStream; NoStream when the slot is null
NoStream == [state |-> AAUDIO_STREAM_STATE_UNINITIALIZED, closed |-> FALSE]

\* a usable handle: not null, not closed
GoodHandle == inputStream # nullptr /\ ~strm.closed

\* the status a call returns for a handle the library does not know
AAUDIO_ERROR_INVALID_HANDLE == -892

\* The stream doubles.  lib = "free": every blocking call may leave the
\* stream in any state of DoubleStates and return any status of Results, and
\* a wait may or may not write *nextState.  lib = "conforming": every request
\* succeeds and puts the stream in the state it asks for, a wait succeeds and
\* reports the current state, a stream is always built.  lib = "failing":
\* no stream can be built, every call fails and leaves a stream as it is.
Stream(s) == [state |-> s, closed |-> FALSE]
AnyStream == { Stream(s) : s \in DoubleStates }

RequestTarget(op) ==
  CASE op = "requestStart" -> AAUDIO_STREAM_STATE_STARTED
    [] op = "requestPause" -> AAUDIO_STREAM_STATE_PAUSED
    [] op = "requestFlush" -> AAUDIO_STREAM_STATE_FLUSHED
    [] op = "requestStop" -> AAUDIO_STREAM_STATE_STOPPED
    [] OTHER -> AAUDIO_STREAM_STATE_CLOSED

\* builder.CreateStream(...): the handle h on a new stream, or nullptr
CreateOutcomes(h) ==
  CASE lib = "free" ->
         { [handle |-> nullptr, strm |-> NoStream] } \cup
         { [handle |-> h, strm |-> x] : x \in AnyStream }
    [] lib = "conforming" ->
         { [handle |-> h, strm |-> Stream(AAUDIO_STREAM_STATE_OPEN)] }
    [] OTHER ->
         { [handle |-> nullptr, strm |-> NoStream] }

\* AAudioStream_request...(inputStream) and AAudioStream_close(inputStream)
RequestOutcomes(op) ==
  IF ~GoodHandle
    THEN { [status |-> AAUDIO_ERROR_INVALID_HANDLE, strm |-> strm] }
  ELSE LET after(x) == IF op = "close"
                         THEN [state |-> AAUDIO_STREAM_STATE_CLOSED, closed |-> TRUE]
                         ELSE x
       IN CASE lib = "free" ->
                 { [status |-> r, strm |-> after(x)] : r \in Results, x \in AnyStream }
            [] lib = "conforming" ->
                 { [status |-> AAUDIO_OK, strm |-> after(Stream(RequestTarget(op)))] }
            [] OTHER ->
                 { [status |-> AAUDIO_ERROR_INVALID_STATE, strm |-> after(strm)] }

\* AAudioStream_waitForStateChange(inputStream, from, &nextState, timeout):
\* written tells whether *nextState was set (to the stream's state)
WaitOutcomes ==
  IF ~GoodHandle
    THEN { [status |-> AAUDIO_ERROR_INVALID_HANDLE, strm |-> strm, written |-> FALSE] }
  ELSE CASE lib = "free" ->
              { [status |-> r, strm |-> x, written |-> w] :
                  r \in Results, x \in AnyStream, w \in BOOLEAN }
         [] lib = "conforming" ->
              { [status |-> AAUDIO_OK, strm |-> strm, written |-> TRUE] }
         [] OTHER ->
              { [status |-> AAUDIO_ERROR_INVALID_STATE, strm |-> strm, written |-> FALSE] }

\* the stream after nanosleep
SleepOutcomes == IF GoodHandle /\ lib = "free" THEN AnyStream ELSE {strm}

\* AAudioStream_getState(inputStream)
GetState == IF GoodHandle THEN strm.state ELSE AAUDIO_ERROR_INVALID_HANDLE

\* the process ends (abort() of a failed assert, or a signal): its threads
\* and its statics are gone; why records the cause
Killed(why) ==
  /\ proc' = why
  /\ th' = [t \in Threads |-> [IdleThread EXCEPT !.pc = "dead"]]
  /\ inputStream' = nullptr
  /\ strm' = NoStream
  /\ smResult' = [i \in 0..(stateMachineSize - 1) |-> FALSE]
  /\ engine' = [ validationInProgress_ |-> FALSE, sampleFormat_ |-> 0,
                 bitsPerSample_ |-> 0 ]

\* assert(cond).  A build with NDEBUG skips it, a build without aborts when
\* cond is false.  The two builds run alike until some assert fails, so the
\* build stays "either" up to there: the failing assert either ends the
\* process (the build without NDEBUG, "undefined") or is passed and settles
\* NDEBUG as "defined".
AssertBuild(cond) == IF cond THEN NDEBUG ELSE "defined"

Upd(t, r) == th' = [th EXCEPT ![t] = r]

Running(t, p) == proc = "running" /\ th[t].pc = p

\* ----------------------------------------- ValidateStreamStateMachine
\* the from-state handed to AAudioStream_waitForStateChange (line 102)
WaitFromState(idx) == Step(idx).state - 1

\* the retry condition of both wait loops (lines 105-106 and 275-276)
WaitAgain(status, nextState) ==
  /\ status \in {AAUDIO_OK, AAUDIO_ERROR_TIMEOUT}
  /\ nextState = AAUDIO_STREAM_STATE_UNINITIALIZED

\* if (pState->state == AAUDIO_STREAM_STATE_CLOSED), line 89
IsClosedStep(idx) == Step(idx).state = AAUDIO_STREAM_STATE_CLOSED

\* pState->result = ..., lines 92 and 113: plain assignment
Record(old, new) == new

\* where the loop body goes after the optional action of step idx
\* (lines 89-113); the closed step is handled with its action
PcAfterAction(idx) == IF idx # 0 THEN "V_wait" ELSE "V_check"

\* the head of the for loop (lines 75-87)
PcLoop(idx) ==
  IF idx >= stateMachineSize THEN "V_report"
  ELSE IF Step(idx).action # "nullptr" THEN "V_action"
  ELSE PcAfterAction(idx)

\* the thread record after step idx recorded res and the loop went on
NextIteration(r) ==
  [ r EXCEPT !.idx = r.idx + 1, !.pc = PcLoop(r.idx + 1),
             !.status = Undefined,
             !.nextState = AAUDIO_STREAM_STATE_UNINITIALIZED,
             !.curState = Undefined,
             !.rec = r.rec \cup {r.idx} ]

\* assert(inputStream == nullptr), line 66
V_assert(t) ==
  /\ Running(t, "V_assert")
  /\ \/ /\ Upd(t, [th[t] EXCEPT !.pc = "V_create", !.acts = << >>,
                                  !.rec = {}, !.waitFrom = Undefined,
                                  !.stateValidationStatus = FALSE])
        /\ inputStream = nullptr \/ NDEBUG # "undefined"
        /\ NDEBUG' = AssertBuild(inputStream = nullptr)
        /\ UNCHANGED << proc, engine, inputStream, strm, smResult >>
     \/ /\ ~(inputStream = nullptr) /\ NDEBUG # "defined"
        /\ Killed("assert_inputStream_null")
        /\ NDEBUG' = "undefined"
  /\ UNCHANGED << lib, host, tune >>

\* inputStream = builder.CreateStream(...), lines 67-72: a new stream in any
\* state of the double, or nullptr when the stream cannot be built
V_create(t) ==
  /\ Running(t, "V_create")
  /\ \E o \in CreateOutcomes(t) :
       /\ inputStream' = o.handle
       /\ strm' = o.strm
  /\ Upd(t, [th[t] EXCEPT !.pc = "V_print"])
  /\ UNCHANGED << lib, NDEBUG, proc, engine, smResult, host, tune >>

\* PrintAudioStreamInfo(inputStream), line 73: getters only
V_print(t) ==
  /\ Running(t, "V_print")
  /\ Upd(t, [th[t] EXCEPT !.pc = PcLoop(0), !.idx = 0])
  /\ UNCHANGED << lib, NDEBUG, proc, engine, inputStream, strm, smResult, host, tune >>

\* status = pState->action(inputStream), lines 79-87, and for the closed
\* step lines 89-94
V_action(t) ==
  /\ Running(t, "V_action")
  /\ LET r == th[t]
         a == Step(r.idx).action
     IN \E o \in RequestOutcomes(a) :
          /\ strm' = o.strm
          /\ LET status == o.status
                 r1 == [r EXCEPT !.acts = Append(r.acts, a)]
             IN IF IsClosedStep(r.idx)
                  THEN /\ smResult' = [smResult EXCEPT
                                          ![r.idx] = Record(smResult[r.idx], TRUE)]
                       /\ Upd(t, NextIteration(r1))
                  ELSE /\ UNCHANGED smResult
                       /\ Upd(t, [r1 EXCEPT !.status = status,
                                            !.pc = PcAfterAction(r.idx)])
  /\ UNCHANGED << lib, NDEBUG, proc, engine, inputStream, host, tune >>

\* one AAudioStream_waitForStateChange of the leave-previous-state loop,
\* lines 97-107: the double may or may not write *nextState
V_wait(t) ==
  /\ Running(t, "V_wait")
  /\ LET r == th[t]
     IN \E o \in WaitOutcomes :
          /\ strm' = o.strm
          /\ LET status == o.status
                 ns == IF o.written THEN o.strm.state ELSE r.nextState
             IN Upd(t, [r EXCEPT !.status = status, !.nextState = ns,
                                 !.waitFrom = WaitFromState(r.idx),
                                 !.pc = IF WaitAgain(status, ns)
                                          THEN "V_wait" ELSE "V_check"])
  /\ UNCHANGED << lib, NDEBUG, proc, engine, inputStream, smResult, host, tune >>

\* CheckState(state) up to its first return or wait, lines 233-260
CheckFirst(state, curState) ==
  IF state = curState THEN "true"
  ELSE IF state = AAUDIO_STREAM_STATE_UNKNOWN THEN "false"
  ELSE IF state \in {AAUDIO_STREAM_STATE_UNINITIALIZED, AAUDIO_STREAM_STATE_OPEN}
    THEN "sleep"
  ELSE "wait"

\* the comparison CheckState returns after its wait or sleep, lines 259, 279
CheckFinal(state, curState) == curState = state

\* pState->result = CheckState(pState->state), line 113, first part
V_check(t) ==
  /\ Running(t, "V_check")
  /\ LET r == th[t]
         state == Step(r.idx).state
         curState == GetState
         how == CheckFirst(state, curState)
         r1 == [r EXCEPT !.status = Undefined,
                         !.nextState = AAUDIO_STREAM_STATE_UNINITIALIZED]
     IN IF ~IS_STABLE_STATE(state) /\ NDEBUG # "defined"
          THEN Killed("assert_stable_state") /\ NDEBUG' = "undefined"
          ELSE /\ UNCHANGED << proc, engine, inputStream, strm >>
               /\ NDEBUG' = AssertBuild(IS_STABLE_STATE(state))
               /\ IF how \in {"true", "false"}
                    THEN /\ smResult' = [smResult EXCEPT
                                            ![r.idx] = Record(smResult[r.idx],
                                                              how = "true")]
                         /\ Upd(t, NextIteration(r1))
                    ELSE /\ UNCHANGED smResult
                         /\ Upd(t, [r1 EXCEPT !.curState = curState,
                                              !.pc = IF how = "sleep"
                                                       THEN "C_sleep" ELSE "C_wait"])
  /\ UNCHANGED << lib, host, tune >>

\* nanosleep, AAudioStream_getState and the comparison, lines 252-259
C_sleep(t) ==
  /\ Running(t, "C_sleep")
  /\ strm' \in SleepOutcomes
  /\ LET r == th[t]
         curState == IF GoodHandle THEN strm'.state
                     ELSE AAUDIO_ERROR_INVALID_HANDLE
     IN /\ smResult' = [smResult EXCEPT
                          ![r.idx] = Record(smResult[r.idx],
                                            CheckFinal(Step(r.idx).state, curState))]
        /\ Upd(t, NextIteration(r))
  /\ UNCHANGED << lib, NDEBUG, proc, engine, inputStream, host, tune >>

\* one AAudioStream_waitForStateChange of CheckState's loop, lines 267-276
C_wait(t) ==
  /\ Running(t, "C_wait")
  /\ LET r == th[t]
     IN \E o \in WaitOutcomes :
          /\ strm' = o.strm
          /\ LET status == o.status
                 ns == IF o.written THEN o.strm.state ELSE r.nextState
             IN Upd(t, [r EXCEPT !.status = status, !.nextState = ns,
                                 !.curState = IF WaitAgain(status, ns)
                                                THEN r.curState ELSE Undefined,
                                 !.pc = IF WaitAgain(status, ns)
                                          THEN "C_wait" ELSE "C_final"])
  /\ UNCHANGED << lib, NDEBUG, proc, engine, inputStream, smResult, host, tune >>

\* curState = AAudioStream_getState(inputStream) and the comparison,
\* lines 277-279
C_final(t) ==
  /\ Running(t, "C_final")
  /\ LET r == th[t]
         curState == GetState
     IN /\ smResult' = [smResult EXCEPT
                          ![r.idx] = Record(smResult[r.idx],
                                            CheckFinal(Step(r.idx).state, curState))]
        /\ Upd(t, NextIteration(r))
  /\ UNCHANGED << lib, NDEBUG, proc, engine, inputStream, strm, host, tune >>

\* the verdict of the report loop, lines 120-125
Passed(res) == \A i \in 0..(stateMachineSize - 1) : res[i]

\* the direction PlayAudioThreadProc passes to ValidateStreamStateMachine2
\* (audio_main.cpp line 71) and to ValidateStreamStateMachine (line 79)
ScriptedDirection == "AAUDIO_DIRECTION_OUTPUT"
TableDirection == "AAUDIO_DIRECTION_INPUT"

\* where a validator returns to
PcReturn(caller) == IF caller = "PlayAudioThreadProc" THEN "P_clear" ELSE "T_ret"

\* the report, inputStream = nullptr and return passed, lines 116-134
V_report(t) ==
  /\ Running(t, "V_report")
  /\ inputStream' = nullptr
  /\ strm' = NoStream
  /\ Upd(t, [th[t] EXCEPT !.stateValidationStatus = Passed(smResult),
                          !.sessions = Append(th[t].sessions,
                                              << "ValidateStreamStateMachine",
                                                 TableDirection >>),
                          !.pc = PcReturn(th[t].caller)])
  /\ UNCHANGED << lib, NDEBUG, proc, engine, smResult, host, tune >>

\* ---------------------------------------- ValidateStreamStateMachine2
\* the script of lines 154-217: each request or wait, and whether its
\* failure jumps to finish
stateMachine2 ==
  << [kind |-> "request", op |-> "requestStart", finishOnError |-> TRUE],
     [kind |-> "wait", from |-> AAUDIO_STREAM_STATE_STARTING, finishOnError |-> TRUE],
     [kind |-> "request", op |-> "requestPause", finishOnError |-> TRUE],
     [kind |-> "wait", from |-> AAUDIO_STREAM_STATE_PAUSING, finishOnError |-> TRUE],
     [kind |-> "request", op |-> "requestFlush", finishOnError |-> TRUE],
     [kind |-> "wait", from |-> AAUDIO_STREAM_STATE_FLUSHING, finishOnError |-> TRUE],
     [kind |-> "request", op |-> "requestStart", finishOnError |-> FALSE],
     [kind |-> "wait", from |-> AAUDIO_STREAM_STATE_STARTING, finishOnError |-> TRUE] >>

\* the program point of script entry i (1 based), finish after the last
Pc2(i) ==
  IF i > Len(stateMachine2) THEN "W_close"
  ELSE IF stateMachine2[i].kind = "request" THEN "W_request" ELSE "W_wait"

\* where script entry i goes with the result of its call
Pc2After(i, result) ==
  IF result # AAUDIO_OK /\ stateMachine2[i].finishOnError
    THEN "W_close" ELSE Pc2(i + 1)

\* assert(inputStream == nullptr), line 143
W_assert(t) ==
  /\ Running(t, "W_assert")
  /\ \/ /\ Upd(t, [th[t] EXCEPT !.pc = "W_create", !.acts = << >>])
        /\ inputStream = nullptr \/ NDEBUG # "undefined"
        /\ NDEBUG' = AssertBuild(inputStream = nullptr)
        /\ UNCHANGED << proc, engine, inputStream, strm, smResult >>
     \/ /\ ~(inputStream = nullptr) /\ NDEBUG # "defined"
        /\ Killed("assert_inputStream_null")
        /\ NDEBUG' = "undefined"
  /\ UNCHANGED << lib, host, tune >>

\* inputStream = builder.CreateStream(...), lines 144-149
W_create(t) ==
  /\ Running(t, "W_create")
  /\ \E o \in CreateOutcomes(t) :
       /\ inputStream' = o.handle
       /\ strm' = o.strm
  /\ Upd(t, [th[t] EXCEPT !.pc = "W_print"])
  /\ UNCHANGED << lib, NDEBUG, proc, engine, smResult, host, tune >>

\* PrintAudioStreamInfo(inputStream), line 150
W_print(t) ==
  /\ Running(t, "W_print")
  /\ Upd(t, [th[t] EXCEPT !.pc = Pc2(1), !.idx = 1])
  /\ UNCHANGED << lib, NDEBUG, proc, engine, inputStream, strm, smResult, host, tune >>

\* result = AAudioStream_request...(inputStream) and its test,
\* lines 154-159, 172-177, 188-193, 204-208
W_request(t) ==
  /\ Running(t, "W_request")
  /\ LET r == th[t]
     IN \E o \in RequestOutcomes(stateMachine2[r.idx].op) :
          /\ strm' = o.strm
          /\ Upd(t, [r EXCEPT !.status = o.status,
                              !.acts = Append(r.acts, stateMachine2[r.idx].op),
                              !.idx = r.idx + 1,
                              !.pc = Pc2After(r.idx, o.status)])
  /\ UNCHANGED << lib, NDEBUG, proc, engine, inputStream, smResult, host, tune >>

\* result = AAudioStream_waitForStateChange(...) and its test,
\* lines 160-169, 178-186, 194-202, 209-217
W_wait(t) ==
  /\ Running(t, "W_wait")
  /\ LET r == th[t]
     IN \E o \in WaitOutcomes :
          /\ strm' = o.strm
          /\ Upd(t, [r EXCEPT !.status = o.status,
                              !.waitFrom = stateMachine2[r.idx].from,
                              !.idx = r.idx + 1,
                              !.pc = Pc2After(r.idx, o.status)])
  /\ UNCHANGED << lib, NDEBUG, proc, engine, inputStream, smResult, host, tune >>

\* finish: AAudioStream_close(inputStream); inputStream = nullptr;
\* return true, lines 220-225, back in PlayAudioThreadProc at line 76
W_close(t) ==
  /\ Running(t, "W_close")
  /\ inputStream' = nullptr
  /\ strm' = NoStream
  /\ Upd(t, [th[t] EXCEPT !.acts = Append(th[t].acts, "close"),
                          !.status = Undefined, !.waitFrom = Undefined,
                          !.idx = 0,
                          !.sessions = Append(th[t].sessions,
                                              << "ValidateStreamStateMachine2",
                                                 ScriptedDirection >>),
                          !.stateValidationStatus = TRUE,
                          !.pc = "V_assert"])
  /\ UNCHANGED << lib, NDEBUG, proc, engine, smResult, host, tune >>

Validate2(t) ==
  \/ W_assert(t) \/ W_create(t) \/ W_print(t) \/ W_request(t) \/ W_wait(t)
  \/ W_close(t)

\* a call on a null or closed handle may also end the process (SIGSEGV)
LibraryPcs ==
  { "V_print", "V_action", "V_wait", "V_check", "C_sleep", "C_wait", "C_final",
    "W_print", "W_request", "W_wait", "W_close" }

Segv(t) ==
  /\ proc = "running"
  /\ th[t].pc \in LibraryPcs
  /\ ~GoodHandle
  /\ Killed("segv")
  /\ UNCHANGED << lib, NDEBUG, host, tune >>

\* --------------------------------------------- the sequential driver
\* a caller that runs the validator again after it returned
T_again(t) ==
  /\ Running(t, "T_ret")
  /\ th[t].runs < MaxRuns
  /\ Upd(t, [th[t] EXCEPT !.pc = "V_assert", !.runs = th[t].runs + 1,
                          !.prevStatus = th[t].stateValidationStatus])
  /\ UNCHANGED << lib, NDEBUG, proc, engine, inputStream, strm, smResult, host, tune >>

\* --------------------------------------------- TunePlayerForLowLatency
\* the tuner's locals before it runs, its stream double, and the record of
\* the stream operations it issued (bookkeeping of the model)
NoLocals ==
  [ framesPerBurst |-> 0, orgSize |-> 0, bufSize |-> 0, bufCap |-> 0,
    prevXRun |-> 0, prevBufSize |-> 0, trainingError |-> FALSE,
    result |-> 0 ]
NoOps ==
  [ sets |-> FALSE, writes |-> FALSE, lastOp |-> << "none", 0 >>,
    probes |-> << >>, granted |-> TRUE ]
NoTune ==
  [ pc |-> "none", ret |-> FALSE, loc |-> NoLocals,
    stream |-> [state |-> AAUDIO_STREAM_STATE_UNINITIALIZED, burst |-> 0,
                cap |-> 0, size |-> 0, xrun |-> 0, size0 |-> 0,
                quiet |-> 0],
    ops |-> NoOps ]

\* the stream doubles handed to the tuner
TunerStreams ==
  { [state |-> st, burst |-> b, cap |-> c, size |-> z, xrun |-> x, size0 |-> z,
     quiet |-> 0] :
      st \in DoubleStates, b \in 1..MaxBurst, c \in 1..MaxCap,
      z \in 0..MaxCap, x \in 0..MaxXRun }

\* the stream doubles of the minimal-size search: started, every requested
\* size is granted, the underrun counter grows during a write at a size
\* below quiet and not at a larger one; quiet is a multiple of the burst
\* within the capacity
GrantingStreams ==
  { s \in { [state |-> AAUDIO_STREAM_STATE_STARTED, burst |-> b, cap |-> c,
             size |-> z, xrun |-> x, size0 |-> z, quiet |-> q] :
               b \in 1..MaxBurst, c \in 1..MaxCap, z \in 0..MaxCap,
               x \in 0..MaxXRun, q \in 1..MaxCap } :
      s.quiet % s.burst = 0 /\ s.quiet <= s.cap }

\* if (state != AAUDIO_STREAM_STATE_STARTED), line 157
NotStarted(state) == state # AAUDIO_STREAM_STATE_STARTED

\* if (result <= AAUDIO_OK), line 177
SetFailed(result) == result <= AAUDIO_OK

\* if (bufSize == prevBufSize), line 186
RefusesToGrow(bufSize, prevBufSize) == bufSize = prevBufSize

\* if (result < 0), line 194
WriteFailed(result) == result < 0

\* if (curXRun <= prevXRun), line 200
NoNewXRun(curXRun, prevXRun) == curXRun <= prevXRun

\* while (bufSize <= bufCap), line 175
LoopCondition(bufSize, bufCap) == bufSize <= bufCap

\* what AAudioStream_setBufferSizeInFrames may do: fail and leave the size,
\* or make any size effective and return it
SetOutcomes(size) ==
  { [result |-> r, size |-> size] : r \in {AAUDIO_ERROR_INVALID_STATE, AAUDIO_OK} }
  \cup { [result |-> z, size |-> z] : z \in 1..MaxCap }

\* what AAudioStream_write may return: an error, or the frames written
WriteResults(bufCap) == {AAUDIO_ERROR_INVALID_STATE, 0, bufCap}

\* the outcomes of setBufferSizeInFrames(stream, req) and of write on the
\* double in use
SetDouble(s, req) ==
  IF lib = "granting" THEN { [result |-> req, size |-> req] }
  ELSE SetOutcomes(s.size)
WriteDouble(s, bufCap) ==
  IF lib = "granting"
    THEN { [result |-> bufCap,
            xrun |-> IF s.size < s.quiet THEN s.xrun + 1 ELSE s.xrun] }
    ELSE { [result |-> r, xrun |-> x] :
             r \in WriteResults(bufCap), x \in 0..MaxXRun }

TunePc(p) == proc = "running" /\ tune.pc = p

\* the loop ended without training error: delete [] buf; return true
\* (lines 208-215)
TuneReturnTrue(tn) == [tn EXCEPT !.pc = "T_done", !.ret = TRUE]

\* the loop ended with trainingError: on to the restore of line 212
TuneBreakError(tn) ==
  [tn EXCEPT !.pc = "T_restore", !.loc.trainingError = TRUE]

\* lines 156-175: the state precondition, the reads on entry, and the
\* first test of the loop condition
T_enter ==
  /\ TunePc("T_enter")
  /\ LET s == tune.stream
         l == [ NoLocals EXCEPT !.framesPerBurst = s.burst,
                                !.orgSize = s.size,
                                !.bufSize = s.burst,
                                !.bufCap = s.cap,
                                !.prevXRun = s.xrun ]
     IN IF NotStarted(s.state)
          THEN tune' = [tune EXCEPT !.pc = "T_done", !.ret = FALSE]
          ELSE IF LoopCondition(l.bufSize, l.bufCap)
            THEN tune' = [tune EXCEPT !.pc = "T_set", !.loc = l]
            ELSE tune' = TuneReturnTrue([tune EXCEPT !.loc = l])
  /\ UNCHANGED << lib, NDEBUG, proc, engine, inputStream, strm, smResult, th, host >>

\* AAudioStream_setBufferSizeInFrames(stream, bufSize), lines 176-180
T_set ==
  /\ TunePc("T_set")
  /\ \E o \in SetDouble(tune.stream, tune.loc.bufSize) :
       LET tn == [tune EXCEPT !.stream.size = o.size,
                              !.loc.result = o.result,
                              !.ops.sets = TRUE,
                              !.ops.probes = Append(tune.ops.probes,
                                                    tune.loc.bufSize),
                              !.ops.granted = /\ tune.ops.granted
                                              /\ o.size = tune.loc.bufSize,
                              !.ops.lastOp = << "set", tune.loc.bufSize >>]
       IN IF SetFailed(o.result)
            THEN tune' = TuneBreakError(tn)
            ELSE tune' = [tn EXCEPT !.pc = "T_get"]
  /\ UNCHANGED << lib, NDEBUG, proc, engine, inputStream, strm, smResult, th, host >>

\* bufSize = AAudioStream_getBufferSizeInFrames(stream), lines 185-191
T_get ==
  /\ TunePc("T_get")
  /\ LET bufSize == tune.stream.size
     IN IF RefusesToGrow(bufSize, tune.loc.prevBufSize)
          THEN tune' = TuneReturnTrue([tune EXCEPT !.loc.bufSize = bufSize])
          ELSE tune' = [tune EXCEPT !.loc.bufSize = bufSize,
                                    !.loc.prevBufSize = bufSize,
                                    !.pc = "T_write"]
  /\ UNCHANGED << lib, NDEBUG, proc, engine, inputStream, strm, smResult, th, host >>

\* AAudioStream_write(stream, buf, bufCap, ...), lines 192-198; the
\* underrun counter may grow while the write blocks
T_write ==
  /\ TunePc("T_write")
  /\ \E w \in WriteDouble(tune.stream, tune.loc.bufCap) :
       LET result == w.result
           tn == [tune EXCEPT !.stream.xrun = w.xrun,
                              !.loc.result = result,
                              !.ops.writes = TRUE,
                              !.ops.lastOp = << "write", tune.loc.bufCap >>]
       IN IF WriteFailed(result)
            THEN \/ /\ NDEBUG # "undefined"
                    /\ tune' = TuneBreakError(tn)
                    /\ NDEBUG' = "defined"
                    /\ UNCHANGED proc
                 \/ /\ NDEBUG # "defined"
                    /\ tune' = tn
                    /\ proc' = "assert_write_result"
                    /\ NDEBUG' = "undefined"
            ELSE /\ tune' = [tn EXCEPT !.pc = "T_xrun"]
                 /\ UNCHANGED << proc, NDEBUG >>
  /\ UNCHANGED << lib, engine, inputStream, strm, smResult, th, host >>

\* curXRun = AAudioStream_getXRunCount(stream), lines 199-206, and the
\* next test of the loop condition
T_xrun ==
  /\ TunePc("T_xrun")
  /\ LET curXRun == tune.stream.xrun
         bufSize == tune.loc.bufSize + tune.loc.framesPerBurst
     IN IF NoNewXRun(curXRun, tune.loc.prevXRun)
          THEN tune' = TuneReturnTrue(tune)
          ELSE LET tn == [tune EXCEPT !.loc.prevXRun = curXRun,
                                      !.loc.bufSize = bufSize]
               IN IF LoopCondition(bufSize, tune.loc.bufCap)
                    THEN tune' = [tn EXCEPT !.pc = "T_set"]
                    ELSE tune' = TuneReturnTrue(tn)
  /\ UNCHANGED << lib, NDEBUG, proc, engine, inputStream, strm, smResult, th, host >>

\* AAudioStream_setBufferSizeInFrames(stream, orgSize); return false,
\* lines 209-214
T_restore ==
  /\ TunePc("T_restore")
  /\ \E o \in SetDouble(tune.stream, tune.loc.orgSize) :
       tune' = [tune EXCEPT !.stream.size = o.size,
                            !.ops.sets = TRUE,
                            !.ops.lastOp = << "set", tune.loc.orgSize >>,
                            !.pc = "T_done", !.ret = FALSE]
  /\ UNCHANGED << lib, NDEBUG, proc, engine, inputStream, strm, smResult, th, host >>

TunePlayerForLowLatency ==
  T_enter \/ T_set \/ T_get \/ T_write \/ T_xrun \/ T_restore

Validate(t) ==
  \/ V_assert(t) \/ V_create(t) \/ V_print(t) \/ V_action(t) \/ V_wait(t)
  \/ V_check(t) \/ C_sleep(t) \/ C_wait(t) \/ C_final(t) \/ V_report(t)
  \/ Segv(t)

NoEngine ==
  [ validationInProgress_ |-> FALSE, sampleFormat_ |-> 0, bitsPerSample_ |-> 0 ]
NoHost == [calls |-> 0, op |-> "none", ret |-> FALSE]

InitValidator ==
  /\ lib = "free"
  /\ NDEBUG = "either"
  /\ proc = "running"
  /\ engine = NoEngine
  /\ inputStream = nullptr
  /\ strm = NoStream
  /\ smResult = [i \in 0..(stateMachineSize - 1) |-> FALSE]
  /\ th = [t \in Threads |->
             IF t = 1 THEN [IdleThread EXCEPT !.pc = "V_assert",
                                              !.caller = "driver", !.runs = 1]
             ELSE IdleThread]
  /\ host = NoHost
  /\ tune = NoTune

NextValidator == Validate(1) \/ T_again(1)

SpecValidator == InitValidator /\ [][NextValidator]_vars

\* the same, with the calling thread never starved of the processor
SpecValidatorFair ==
  InitValidator /\ [][NextValidator]_vars /\ WF_vars(NextValidator)

InitTuner ==
  /\ lib \in {"free", "granting"}
  /\ NDEBUG = "either"
  /\ proc = "running"
  /\ engine = NoEngine
  /\ inputStream = nullptr
  /\ strm = NoStream
  /\ smResult = [i \in 0..(stateMachineSize - 1) |-> FALSE]
  /\ th = [t \in Threads |-> IdleThread]
  /\ host = NoHost
  /\ \E s \in IF lib = "granting" THEN GrantingStreams ELSE TunerStreams :
       tune = [NoTune EXCEPT !.pc = "T_enter", !.stream = s]

SpecTuner == InitTuner /\ [][TunePlayerForLowLatency]_vars

\* the same, with the calling thread never starved of the processor
SpecTunerFair ==
  InitTuner /\ [][TunePlayerForLowLatency]_vars
            /\ WF_vars(TunePlayerForLowLatency)

\* -------------------------------------------- audio_common.cpp tables
AAUDIO_FORMAT_INVALID == -1
AAUDIO_FORMAT_UNSPECIFIED == 0
AAUDIO_FORMAT_PCM_I16 == 1
AAUDIO_FORMAT_PCM_FLOAT == 2

audioFormatEnum ==
  << AAUDIO_FORMAT_INVALID, AAUDIO_FORMAT_UNSPECIFIED,
     AAUDIO_FORMAT_PCM_I16, AAUDIO_FORMAT_PCM_FLOAT >>
audioFormatCount == Len(audioFormatEnum)
sampleFormatBPP == << 65535, 65535, 16, 32 >>

SampleFormatToBpp(format) ==
  LET hits == { i \in 1..audioFormatCount : audioFormatEnum[i] = format }
  IN IF hits = {} THEN 65535
     ELSE sampleFormatBPP[CHOOSE i \in hits : \A j \in hits : i <= j]

\* ------------------------------------------------- the worker thread
\* eng->validationInProgress_ = false, line 84, and the thread ends
P_clear(t) ==
  /\ Running(t, "P_clear")
  /\ engine' = [engine EXCEPT !.validationInProgress_ = FALSE]
  /\ Upd(t, IdleThread)
  /\ UNCHANGED << lib, NDEBUG, proc, inputStream, strm, smResult, host, tune >>

PlayAudioThreadProc(t) == Validate2(t) \/ Validate(t) \/ P_clear(t)

\* ------------------------------------------------ the host entry points
HostCall(op, ret) ==
  /\ proc = "running"
  /\ host.calls < MaxCalls
  /\ host' = [calls |-> host.calls + 1, op |-> op, ret |-> ret]

\* memset(&engine, 0, sizeof(engine)) and the three assignments, lines 95-101
createEngine ==
  /\ HostCall("createEngine", TRUE)
  /\ engine' = [ validationInProgress_ |-> FALSE,
                 sampleFormat_ |-> AAUDIO_FORMAT_PCM_I16,
                 bitsPerSample_ |-> SampleFormatToBpp(AAUDIO_FORMAT_PCM_I16) ]
  /\ UNCHANGED << lib, NDEBUG, proc, inputStream, strm, smResult, th, tune >>

\* the guard of start, line 111
StartRejected == engine.validationInProgress_

\* the thread std::thread t(PlayAudioThreadProc, &engine) creates
NewThread == CHOOSE t \in Threads :
               th[t].pc = "none" /\ \A u \in Threads : th[u].pc = "none" => t <= u

\* lines 111-118
start ==
  IF StartRejected
    THEN /\ HostCall("start", FALSE)
         /\ UNCHANGED << lib, NDEBUG, proc, engine, inputStream, strm, smResult, th, tune >>
    ELSE /\ HostCall("start", TRUE)
         /\ engine' = [engine EXCEPT !.validationInProgress_ = TRUE]
         /\ Upd(NewThread, [IdleThread EXCEPT !.pc = "W_assert",
                                              !.caller = "PlayAudioThreadProc"])
         /\ UNCHANGED << lib, NDEBUG, proc, inputStream, strm, smResult, tune >>

\* lines 128-131
stop ==
  /\ HostCall("stop", ~engine.validationInProgress_)
  /\ UNCHANGED << lib, NDEBUG, proc, engine, inputStream, strm, smResult, th, tune >>

\* lines 139-142: empty
deleteEngine ==
  /\ HostCall("deleteEngine", FALSE)
  /\ UNCHANGED << lib, NDEBUG, proc, engine, inputStream, strm, smResult, th, tune >>

Init ==
  /\ lib \in {"conforming", "failing"}
  /\ NDEBUG = "either"
  /\ proc = "running"
  /\ engine = NoEngine
  /\ inputStream = nullptr
  /\ strm = NoStream
  /\ smResult = [i \in 0..(stateMachineSize - 1) |-> FALSE]
  /\ th = [t \in Threads |-> IdleThread]
  /\ host = NoHost
  /\ tune = NoTune

Next ==
  \/ createEngine \/ start \/ stop \/ deleteEngine
  \/ \E t \in Threads : PlayAudioThreadProc(t)

Spec == Init /\ [][Next]_vars

\* one worker thread alone, as launched by start after createEngine, with
\* a library that may answer every call in any way
InitWorker ==
  /\ lib = "free"
  /\ NDEBUG = "either"
  /\ proc = "running"
  /\ engine = [ validationInProgress_ |-> TRUE,
                sampleFormat_ |-> AAUDIO_FORMAT_PCM_I16,
                bitsPerSample_ |-> SampleFormatToBpp(AAUDIO_FORMAT_PCM_I16) ]
  /\ inputStream = nullptr
  /\ strm = NoStream
  /\ smResult = [i \in 0..(stateMachineSize - 1) |-> FALSE]
  /\ th = [t \in Threads |->
             IF t = 1 THEN [IdleThread EXCEPT !.pc = "W_assert",
                                              !.caller = "PlayAudioThreadProc"]
             ELSE IdleThread]
  /\ host = [calls |-> 2, op |-> "start", ret |-> TRUE]
  /\ tune = NoTune

NextWorker == PlayAudioThreadProc(1)

SpecWorker == InitWorker /\ [][NextWorker]_vars

\* ================================================================ claims

\* C1: start() is guarded by validationInProgress_: a call made while the
\* flag is true returns failure, launches no thread and leaves the flag;
\* a call made while it is false returns success, sets the flag and
\* launches exactly one worker thread.
C1_StartGuard ==
  [][ (host'.calls = host.calls + 1 /\ host'.op = "start") =>
        IF engine.validationInProgress_
          THEN /\ host'.ret = FALSE
               /\ th' = th
               /\ engine' = engine
          ELSE /\ host'.ret = TRUE
               /\ engine'.validationInProgress_
               /\ Cardinality({t \in Threads : th'[t].pc # "none"})
                    = Cardinality({t \in Threads : th[t].pc # "none"}) + 1
               /\ \A t \in Threads : th[t].pc # "none" => th'[t] = th[t] ]_vars

\* a start() was refused while a worker was running
C1_Witness ==
  /\ host.op = "start" /\ host.ret = FALSE
  /\ engine.validationInProgress_
  /\ \E t \in Threads : th[t].pc \notin {"none", "dead"}

\* C2: under any sequence of createEngine, start, stop and deleteEngine at
\* most one validation session is active and every session finds the stream
\* slot empty on entry (the entry assertion never fails).
C2_SingleSession ==
  /\ Cardinality({t \in Threads : th[t].pc \notin {"none", "dead"}}) <= 1
  /\ proc # "assert_inputStream_null"
  /\ \A t \in Threads :
       th[t].pc \in {"V_assert", "W_assert"} => inputStream = nullptr

\* C3: for each of the six steps whose target is not the closed state, the
\* step is recorded as passed exactly when the state of the stream, sampled
\* after the step's action and wait, equals the step's target state.
C3_StepResultIsComparison ==
  [][ \A t \in Threads :
        LET i == th[t].idx IN
          ( /\ th[t].pc \in {"V_action", "V_wait", "V_check",
                             "C_sleep", "C_wait", "C_final"}
            /\ th'[t].idx = i + 1
            /\ i \in 0..5
            /\ GoodHandle )
          => smResult'[i] = (strm'.state = Step(i).state) ]_vars

\* a run recorded one step as passed and another as failed
C3_Witness ==
  \E t \in Threads :
    /\ th[t].pc = "V_action" /\ th[t].idx = 6 /\ GoodHandle
    /\ smResult[1] /\ ~smResult[2] /\ smResult[3]

\* C4: the value ValidateStreamStateMachine returns is the conjunction of
\* the seven step results, all seven recorded during the run that returns.
C4_VerdictIsConjunction ==
  \A t \in Threads :
    th[t].pc \in {"T_ret", "P_clear"} =>
      /\ th[t].rec = 0..6
      /\ th[t].stateValidationStatus =
           ( smResult[0] /\ smResult[1] /\ smResult[2] /\ smResult[3]
             /\ smResult[4] /\ smResult[5] /\ smResult[6] )

\* a run returned false because of a single failed step
C4_Witness ==
  \E t \in Threads :
    /\ th[t].pc = "T_ret"
    /\ th[t].stateValidationStatus = FALSE
    /\ \A i \in 0..6 : smResult[i] = (i # 3)

\* C5: the step whose target is the closed state is recorded as passed by
\* the step that performs the close, whatever the close returns and whatever
\* the other steps recorded: no wait and no state query follows the close.
C5_ClosedStepPasses ==
  [][ \A t \in Threads :
        ( /\ th[t].pc \in {"V_action", "V_wait", "V_check",
                           "C_sleep", "C_wait", "C_final"}
          /\ th[t].idx = 6
          /\ th'[t] # th[t]
          /\ proc' = "running" )
        => /\ th[t].pc = "V_action"
           /\ th'[t].idx = 7
           /\ th'[t].pc = "V_report"
           /\ th'[t].acts = Append(th[t].acts, "close")
           /\ smResult'[6] = TRUE ]_vars

\* the closed step passed in a run whose stop step had failed
C5_Witness ==
  \E t \in Threads :
    th[t].pc = "V_report" /\ smResult[6] /\ ~smResult[5]

\* C6: a run of ValidateStreamStateMachine invokes exactly the six actions
\* requestStart, requestPause, requestFlush, requestStart, requestStop and
\* close, once each and in this order, whatever their outcomes; the stream is
\* closed by the time the results are reported.
C6_SixActionsInOrder ==
  \A t \in Threads :
    LET canon == << "requestStart", "requestPause", "requestFlush",
                    "requestStart", "requestStop", "close" >>
        acts  == th[t].acts
    IN /\ th[t].pc \in {"V_create", "V_print", "V_action", "V_wait", "V_check",
                        "C_sleep", "C_wait", "C_final"}
            => /\ Len(acts) < Len(canon)
               /\ acts = SubSeq(canon, 1, Len(acts))
               /\ Len(acts) = (IF th[t].pc \in {"V_create", "V_print"} THEN 0
                               ELSE IF th[t].pc = "V_action" THEN th[t].idx - 1
                               ELSE th[t].idx)
       /\ th[t].pc \in {"V_report", "T_ret", "P_clear"}
            => /\ acts = canon
               /\ ~GoodHandle

\* a run went through all six actions although its first start step failed
C6_Witness ==
  \E t \in Threads :
    /\ th[t].pc = "T_ret"
    /\ Len(th[t].acts) = 6
    /\ ~smResult[1] /\ smResult[0]

\* C7: when the validator runs twice without overlap, the stream slot is
\* empty between the runs and when the second run starts, and the second
\* run's step results and verdict are those of the second run alone,
\* whatever the first run left in the table.
C7_SecondRunIndependent ==
  /\ [](\A t \in Threads :
          th[t].caller = "driver" /\ th[t].pc \in {"T_ret", "V_assert"}
            => inputStream = nullptr /\ strm = NoStream)
  /\ [][ \A t \in Threads :
           LET i == th[t].idx IN
             ( /\ th[t].runs >= 2
               /\ th[t].pc \in {"V_action", "V_wait", "V_check",
                                "C_sleep", "C_wait", "C_final"}
               /\ th'[t].idx = i + 1
               /\ proc' = "running" )
             => smResult'[i] =
                  IF i = 6 THEN TRUE
                  ELSE IF GoodHandle THEN strm'.state = Step(i).state
                  ELSE FALSE ]_vars
  /\ [](\A t \in Threads :
          th[t].runs >= 2 /\ th[t].pc = "T_ret"
            => /\ th[t].rec = 0..6
               /\ th[t].stateValidationStatus = (\A i \in 0..6 : smResult[i]))

\* a second run failed after a first run that had passed
C7_Witness ==
  \E t \in Threads :
    /\ th[t].runs = 2 /\ th[t].pc = "T_ret"
    /\ th[t].prevStatus = TRUE
    /\ th[t].stateValidationStatus = FALSE

\* C8: when the stream is not in the started state the tuner returns false
\* at once: it never sets a buffer size, never writes, and the stream's
\* buffer size is the one it had on entry.
C8_TunerPrecondition ==
  (tune.pc # "none" /\ tune.stream.state # AAUDIO_STREAM_STATE_STARTED) =>
    /\ tune.pc \in {"T_enter", "T_done"}
    /\ ~tune.ops.sets /\ ~tune.ops.writes
    /\ tune.stream.size = tune.stream.size0
    /\ tune.pc = "T_done" => tune.ret = FALSE

\* the tuner returned false for a paused stream
C8_Witness ==
  /\ tune.pc = "T_done" /\ tune.ret = FALSE
  /\ tune.stream.state = AAUDIO_STREAM_STATE_PAUSED

\* C9: once a buffer-size set has failed or a write has returned a negative
\* result, the tuner probes no further: its next and last stream operation
\* is the request to set the size it read on entry, and it returns false.
C9_FailureRestores ==
  LET failed ==
        \/ tune.ops.lastOp[1] = "write" /\ tune.loc.result < 0
        \/ tune.ops.lastOp[1] = "set" /\ tune.loc.result <= 0
  IN failed =>
       /\ proc = "running"
       /\ tune.pc \in {"T_restore", "T_done"}
       /\ tune.pc = "T_done" =>
            /\ tune.ret = FALSE
            /\ tune.ops.lastOp = << "set", tune.stream.size0 >>

\* C10: the tuner returns true, and issues no further stream operation (in
\* particular no restore), as soon as the size it reads back equals the
\* size of the round before or the underrun count after the test write has
\* not grown.
C10_TunerSuccess ==
  [][ ( \/ /\ tune.pc = "T_get"
           /\ tune.stream.size = tune.loc.prevBufSize
        \/ /\ tune.pc = "T_xrun"
           /\ tune.stream.xrun <= tune.loc.prevXRun )
      => /\ tune'.pc = "T_done"
         /\ tune'.ret = TRUE
         /\ tune'.ops = tune.ops
         /\ tune'.stream = tune.stream ]_vars

\* the tuner returned true after a test write, inside the capacity
C10_Witness ==
  /\ tune.pc = "T_done" /\ tune.ret = TRUE
  /\ tune.ops.lastOp[1] = "write"
  /\ tune.loc.bufSize <= tune.loc.bufCap
  /\ tune.loc.bufSize > tune.loc.framesPerBurst

\* C11: on a started stream double with burst B and capacity C that grants
\* every requested size, accepts every write, and counts a new underrun in
\* every round at a size below S and none at size S (S a multiple of B,
\* S <= C), the tuner requests the sizes B, 2B, ..., S in this order and no
\* other, and returns true with the stream's buffer size equal to S.
C11_MinimalSizeSearch ==
  (lib = "granting" /\ tune.pc # "none") =>
    LET B == tune.stream.burst
        S == tune.stream.quiet
        probes == tune.ops.probes
    IN /\ Len(probes) * B <= S
       /\ \A k \in 1..Len(probes) : probes[k] = k * B
       /\ tune.pc = "T_done" =>
            /\ tune.ret = TRUE
            /\ Len(probes) * B = S
            /\ tune.stream.size = S
            /\ tune.ops.lastOp[1] = "write"

\* the search ended at the third size it tried, the capacity
C11_Witness ==
  /\ lib = "granting" /\ tune.pc = "T_done" /\ tune.ret = TRUE
  /\ Len(tune.ops.probes) = 3
  /\ tune.stream.size = tune.stream.cap
  /\ tune.stream.size0 # tune.stream.size

\* C12: stop() is a pure acknowledgment: it returns success exactly when no
\* validation session is in progress, and it changes neither the
\* in-progress flag, nor the stream slot, nor any worker thread.
C12_StopPureAck ==
  [][ (host'.calls = host.calls + 1 /\ host'.op = "stop") =>
        /\ host'.ret = (\A t \in Threads : th[t].pc \in {"none", "dead"})
        /\ engine' = engine
        /\ inputStream' = inputStream /\ strm' = strm
        /\ smResult' = smResult
        /\ th' = th ]_vars

\* C13: no failure of the stream is fatal to the process: whatever the
\* stream calls return (a failed action, a timed-out wait, a state
\* mismatch, a failed set of the buffer size, a negative write result),
\* the process is never ended by an abort or a failed assertion.
C13_NoFatalFailure ==
  proc \notin {"assert_write_result", "assert_inputStream_null",
               "assert_stable_state"}

\* C14 (as claimed): when a worker is about to clear the in-progress flag
\* it has run to completion the table-driven sequence for the output
\* direction, the table-driven sequence for the input direction, and the
\* scripted output-only session.
C14_ThreeSessions ==
  \A t \in Threads :
    th[t].pc = "P_clear" =>
      \A want \in { << "ValidateStreamStateMachine", "AAUDIO_DIRECTION_OUTPUT" >>,
                    << "ValidateStreamStateMachine", "AAUDIO_DIRECTION_INPUT" >>,
                    << "ValidateStreamStateMachine2", "AAUDIO_DIRECTION_OUTPUT" >> } :
        \E k \in 1..Len(th[t].sessions) : th[t].sessions[k] = want

\* C14 (amended): a worker runs the scripted output-only session to its
\* return, then the table-driven sequence for the input direction to its
\* return, and nothing else; it clears the in-progress flag and ends only
\* after both have returned.
C14_TwoSessions ==
  /\ [](\A t \in Threads :
          LET scripted == << "ValidateStreamStateMachine2", "AAUDIO_DIRECTION_OUTPUT" >>
              table    == << "ValidateStreamStateMachine", "AAUDIO_DIRECTION_INPUT" >>
          IN th[t].caller = "PlayAudioThreadProc" =>
               /\ th[t].pc = "P_clear" <=> th[t].sessions = << scripted, table >>
               /\ th[t].pc \in {"V_assert", "V_create", "V_print", "V_action",
                                "V_wait", "V_check", "C_sleep", "C_wait",
                                "C_final", "V_report"}
                    <=> th[t].sessions = << scripted >>
               /\ Len(th[t].sessions) <= 2)
  /\ [][ \A t \in Threads :
           ( /\ th[t].caller = "PlayAudioThreadProc"
             /\ proc' = "running"
             /\ \/ th'[t].pc = "none"
                \/ /\ th'[t].pc # th[t].pc
                   /\ engine.validationInProgress_
                   /\ ~engine'.validationInProgress_ )
           => th[t].pc = "P_clear" ]_vars

\* a worker has run both sessions and is about to clear the flag
C14_Witness ==
  \E t \in Threads :
    /\ th[t].pc = "P_clear" /\ Len(th[t].sessions) = 2
    /\ engine.validationInProgress_

\* C15 (as claimed): for every behaviour of the wait primitive, one that
\* times out on every attempt included, a wait loop of the validator does
\* not retry forever: a thread in a wait loop eventually leaves it.
C15_WaitLoopsTerminate ==
  \A t \in Threads :
    [](th[t].pc \in {"V_wait", "C_wait"}
         => <>(th[t].pc \notin {"V_wait", "C_wait"}))

\* C15 (amended): each wait loop of the validator (the leave-previous-state
\* loop of a step and the loop inside CheckState) ends with the first wait
\* that reports a next state other than uninitialized or returns a status
\* other than OK or timeout, and retries only after a wait that returned OK
\* or timeout without reporting a next state; the retries are not bounded.
C15_WaitLoopExit ==
  [][ \A t \in Threads :
        ( /\ th[t].caller = "driver"
          /\ th[t].pc \in {"V_wait", "C_wait"}
          /\ proc' = "running" )
        => /\ th'[t].pc \in {"V_wait", "C_wait"}
                <=> /\ th'[t].status \in {AAUDIO_OK, AAUDIO_ERROR_TIMEOUT}
                    /\ th'[t].nextState = AAUDIO_STREAM_STATE_UNINITIALIZED
           /\ th'[t].pc \in {"V_wait", "C_wait"} => th'[t].pc = th[t].pc
           /\ th'[t].idx = th[t].idx ]_vars

\* a wait loop ended on an error status that reported no next state
C15_Witness ==
  \E t \in Threads :
    /\ th[t].pc = "C_final" /\ GoodHandle
    /\ th[t].status = AAUDIO_ERROR_INVALID_STATE
    /\ th[t].nextState = AAUDIO_STREAM_STATE_UNINITIALIZED

\* C16 (as claimed): in every step after the first that is not the closed
\* step, the from-state passed to the wait is the target state of the step
\* before it in the table; the first step performs no wait.
C16_WaitFromPreviousTarget ==
  \A t \in Threads :
    /\ ( th[t].pc \in {"V_check", "C_sleep", "C_wait", "C_final"}
         /\ th[t].idx \in 1..5 )
       => th[t].waitFrom = Step(th[t].idx - 1).state
    /\ ( th[t].pc \in {"V_action", "V_wait", "V_check", "C_sleep", "C_wait",
                       "C_final"}
         /\ th[t].idx = 0 )
       => th[t].pc # "V_wait" /\ th[t].waitFrom = Undefined

\* C16 (amended): in every step after the first that is not the closed
\* step, the from-state passed to the wait is the state numbered one below
\* the step's own target, the transient state that leads to it (STARTING for
\* STARTED, PAUSING for PAUSED, FLUSHING for FLUSHED, STARTING for the second
\* STARTED, STOPPING for STOPPED); the first step and the closed step
\* perform no wait.
C16_WaitFromTransient ==
  \A t \in Threads :
    LET from == << AAUDIO_STREAM_STATE_STARTING, AAUDIO_STREAM_STATE_PAUSING,
                   AAUDIO_STREAM_STATE_FLUSHING, AAUDIO_STREAM_STATE_STARTING,
                   AAUDIO_STREAM_STATE_STOPPING >>
    IN /\ ( th[t].pc \in {"V_check", "C_sleep", "C_wait", "C_final"}
            /\ th[t].idx \in 1..5 )
          => th[t].waitFrom = from[th[t].idx]
       /\ ( th[t].pc \in {"V_action", "V_wait", "V_check", "C_sleep", "C_wait",
                          "C_final"}
            /\ th[t].idx \in {0, 6} )
          => th[t].pc # "V_wait" /\ (th[t].idx = 0 => th[t].waitFrom = Undefined)

\* the wait of the pause step was made from the pausing state
C16_Witness ==
  \E t \in Threads :
    /\ th[t].pc = "V_check" /\ th[t].idx = 2
    /\ th[t].waitFrom = AAUDIO_STREAM_STATE_PAUSING

\* C17: no use after close: once close has been invoked on the stream the
\* slot points to, no thread is at a stream operation (an action, a state
\* query, a wait, a second close) on that handle.
C17_NoUseAfterClose ==
  \A t \in Threads :
    th[t].pc \in {"V_print", "V_action", "V_wait", "V_check", "C_sleep",
                  "C_wait", "C_final", "W_print", "W_request", "W_wait",
                  "W_close"}
      => ~(inputStream # nullptr /\ strm.closed)

\* C18: whenever the tuner returns true, the last round it executed either
\* observed that the library refused to grow the effective size or observed
\* no new underrun after the write, and every size it requested was at least
\* one burst and at most the capacity; it never returns true after the
\* underruns increased in every round up to capacity.
C18_TrueResultMeaning ==
  /\ [][ ( /\ tune.pc # "T_done" /\ tune'.pc = "T_done" /\ tune'.ret = TRUE
           /\ tune.ops.probes # << >> )
           => \/ /\ tune.pc = "T_get"
                 /\ RefusesToGrow(tune.stream.size, tune.loc.prevBufSize)
              \/ /\ tune.pc = "T_xrun"
                 /\ NoNewXRun(tune.stream.xrun, tune.loc.prevXRun) ]_vars
  /\ []( (tune.pc = "T_done" /\ tune.ret = TRUE)
           => \A i \in 1..Len(tune.ops.probes) :
                /\ tune.ops.probes[i] >= tune.loc.framesPerBurst
                /\ tune.ops.probes[i] <= tune.loc.bufCap )

\* the tuner is no longer running: it returned, or the process was aborted
TunerStopped == tune.pc = "T_done" \/ proc # "running"

\* C20: for every behaviour of the stream double with a burst of at least
\* one frame and a finite capacity, the tuner terminates, and it executes at
\* most capacity / burst rounds.
C20_TerminatesWithinBound ==
  /\ <>TunerStopped
  /\ [](Len(tune.ops.probes) <= tune.stream.cap \div tune.stream.burst)

\* C20, amended: the tuner terminates for every behaviour of the stream
\* double, and it executes at most capacity / burst rounds when every size
\* it requested became the effective size.
C20_Terminates ==
  /\ <>TunerStopped
  /\ [](tune.ops.granted
          => Len(tune.ops.probes) <= tune.stream.cap \div tune.stream.burst)

\* the tuner returned after as many rounds as the capacity allows, each
\* request granted and each round but the last with new underruns
C20_Witness ==
  /\ tune.pc = "T_done" /\ tune.ret = TRUE
  /\ tune.ops.granted
  /\ Len(tune.ops.probes) = 3
  /\ Len(tune.ops.probes) = tune.stream.cap \div tune.stream.burst
  /\ lib = "free"

\* C19: the in-progress flag is cleared only after both validation sessions
\* of the worker have returned, never while a session is still using the
\* stream slot: a step that takes the flag from true to false leaves no
\* worker inside ValidateStreamStateMachine2 or ValidateStreamStateMachine.
C19_ClearedAfterSessions ==
  [][ ( /\ engine.validationInProgress_ /\ ~engine'.validationInProgress_
        /\ proc' = "running" )
        => \A t \in Threads : th'[t].pc = "none" ]_vars

\* C21: in ValidateStreamStateMachine2, on every path the stream is closed
\* exactly once, the stream slot is cleared and the function returns true,
\* and every failed request or failed wait skips all remaining script steps
\* and goes directly to close.
C21_EveryFailureFinishes ==
  /\ [][ \A t \in Threads :
           ( /\ th[t].pc \in {"W_request", "W_wait"}
             /\ th'[t].idx = th[t].idx + 1
             /\ proc' = "running"
             /\ th'[t].status # AAUDIO_OK )
             => th'[t].pc = "W_close" ]_vars
  /\ [][ \A t \in Threads :
           (th[t].pc = "W_close" /\ th'[t].pc = "V_assert")
             => /\ inputStream' = nullptr
                /\ th'[t].stateValidationStatus
                /\ Len(SelectSeq(th'[t].acts, LAMBDA a : a = "close")) = 1 ]_vars
====
